---- MODULE Spec2Model ----
(***************************************************************************)
(* Model of cirq.protocols.has_unitary (the capability resolver) and of    *)
(* cirq.work.PauliStringSampleCollector (the sample collector).            *)
(***************************************************************************)
EXTENDS Integers, Sequences, FiniteSets, TLC

(***************************************************************************)
(* Bounds                                                                  *)
(***************************************************************************)
\* longest decomposition of the value handed to has_unitary
MaxOps == 2
\* longest decomposition of a sub-operation that itself decomposes
MaxInnerOps == 0
\* most entries of the LinearDict a Collector is constructed from
MaxTerms == 2
\* largest samples_per_term a Collector is constructed with
MaxSamplesPerTerm == 3
\* largest max_samples_per_job a Collector is constructed with
MaxSamplesPerJob == 2
\* largest samples_per_term * number of terms a Collector is constructed with
MaxTotalSamples == 4
\* next_job calls the driving loop makes after the last Job it can get
ExtraCalls == 2
\* most Jobs the driving loop has in flight at the sampler
MaxInFlight == 2
\* most estimated_energy calls between two on_job_result calls
MaxReads == 2
\* values in a decomposition graph has_unitary is followed through
MaxNodes == 2

VARIABLES
    \* ---- resolver: one call of has_unitary(val)
    r_val,        \* the value has_unitary is called on
    r_called,     \* has the call returned
    r_result,     \* what has_unitary(val) returned
    r_strats,     \* what each of the four strategies returns on val
    \* ---- resolver: has_unitary followed call by call
    graph,        \* the values: what each exposes and decomposes into
    stack,        \* the has_unitary calls in progress, innermost last
    outcome,      \* how the outermost call ended, "Running" until it has
    \* ---- collector: the fields of one PauliStringSampleCollector
    _terms,                    \* list of (observable, coefficient)
    _samples_per_term,
    _samples_per_job,
    _total_samples_requested,
    _zeros,                    \* defaultdict: observable -> count
    _ones,                     \* defaultdict: observable -> count
    \* ---- collector: the driving loop around it
    returned,     \* what each next_job call so far returned (or raised)
    pending,      \* indices in returned of the Jobs still in flight
    deliveries,   \* the (job, result) pairs given to on_job_result so far
    energies      \* what the estimated_energy calls since the last
                  \* on_job_result call returned

svars == <<graph, stack, outcome>>
rvars == <<r_val, r_called, r_result, r_strats, svars>>
cvars == <<_terms, _samples_per_term, _samples_per_job,
           _total_samples_requested, _zeros, _ones,
           returned, pending, deliveries, energies>>
vars == <<r_val, r_called, r_result, r_strats, graph, stack, outcome,
          _terms, _samples_per_term, _samples_per_job,
          _total_samples_requested, _zeros, _ones,
          returned, pending, deliveries, energies>>

(***************************************************************************)
(* Values handed to has_unitary.  A value is a record of what its optional *)
(* methods do when called:                                                 *)
(*   kind            "Gate" | "Operation" | "Other" (the isinstance tests) *)
(*   has_unitary_    "Absent" | "NotImplemented" | "True" | "False"        *)
(*   apply_unitary_  "Absent" | "NotImplemented" | "None" | "Array"        *)
(*   unitary_        "Absent" | "NotImplemented" | "None" | "Array"        *)
(*   decomposes      whether decompose_once yields a list of operations    *)
(*   operations      that list                                             *)
(* Python's None, True and False are the strings "None", "True", "False".  *)
(***************************************************************************)
FlagOutcomes == {"Absent", "NotImplemented", "True", "False"}
ArrayOutcomes == {"Absent", "NotImplemented", "None", "Array"}
Kinds == {"Gate", "Operation", "Other"}

SeqsUpTo(S, n) == UNION {[1..k -> S] : k \in 0..n}

\* operations that do not decompose and expose at most the direct flag
LeafOps ==
    [kind : {"Operation"}, has_unitary_ : FlagOutcomes,
     apply_unitary_ : {"Absent"}, unitary_ : {"Absent"},
     decomposes : {FALSE}, operations : {<<>>}]

\* operations exposing nothing but a decomposition into leaf operations
CompositeOps ==
    [kind : {"Operation"}, has_unitary_ : {"Absent"},
     apply_unitary_ : {"Absent"}, unitary_ : {"Absent"},
     decomposes : {TRUE}, operations : SeqsUpTo(LeafOps, MaxInnerOps)]

SubOps == LeafOps \cup CompositeOps

Values ==
    [kind : Kinds, has_unitary_ : FlagOutcomes,
     apply_unitary_ : ArrayOutcomes, unitary_ : ArrayOutcomes,
     decomposes : {FALSE}, operations : {<<>>}]
    \cup
    [kind : Kinds, has_unitary_ : FlagOutcomes,
     apply_unitary_ : ArrayOutcomes, unitary_ : ArrayOutcomes,
     decomposes : {TRUE}, operations : SeqsUpTo(SubOps, MaxOps)]

(***************************************************************************)
(* has_unitary.py                                                          *)
(***************************************************************************)
RECURSIVE has_unitary(_)
RECURSIVE _strat_has_unitary_from_decompose(_)
RECURSIVE first_conclusive(_, _, _)

_strat_has_unitary_from_has_unitary(val) ==
    LET result == IF val.has_unitary_ = "Absent" THEN "NotImplemented"
                  ELSE val.has_unitary_
    IN  IF result = "NotImplemented" THEN "None" ELSE result

_strat_has_unitary_from_unitary(val) ==
    IF val.unitary_ = "Absent" THEN "None"
    ELSE LET result == val.unitary_
         IN  IF result # "NotImplemented" /\ result # "None"
             THEN "True" ELSE "False"

\* decompose_once / decompose_once_with_qubits with default None: the list of
\* operations, or None; the qubits it also returns are not used by the caller
_try_decompose_into_operations_and_qubits(val) ==
    IF val.kind = "Gate"
    THEN [is_none |-> ~val.decomposes, operations |-> val.operations]
    ELSE IF val.kind = "Operation"
    THEN [is_none |-> ~val.decomposes, operations |-> val.operations]
    ELSE IF val.decomposes
    THEN [is_none |-> FALSE, operations |-> val.operations]
    ELSE [is_none |-> TRUE, operations |-> <<>>]

_strat_has_unitary_from_decompose(val) ==
    LET d == _try_decompose_into_operations_and_qubits(val)
    IN  IF d.is_none THEN "None"
        ELSE LET has_unitaries ==
                     [k \in 1..Len(d.operations) |-> has_unitary(d.operations[k])]
             IN  IF \E k \in 1..Len(has_unitaries) :
                        has_unitaries[k] \in {"None", "NotImplemented"}
                 THEN "None"
                 ELSE IF \A k \in 1..Len(has_unitaries) : has_unitaries[k] = "True"
                      THEN "True" ELSE "False"

\* val.on(*LineQubit.range(val.num_qubits())): the Operation that applies the
\* gate to the line qubits 0 .. num_qubits - 1
on(val) == [val EXCEPT !.kind = "Operation"]

\* the strategy without lines 152-153: a gate is not placed (mutant)
_strat_has_unitary_from_apply_unitary_unplaced(val) ==
    IF val.apply_unitary_ = "Absent" THEN "None"
    ELSE IF val.kind # "Operation" THEN "None"
    ELSE LET result == val.apply_unitary_
         IN  IF result = "NotImplemented" THEN "None"
             ELSE IF result # "None" THEN "True" ELSE "False"

_strat_has_unitary_from_apply_unitary(val) ==
    IF val.apply_unitary_ = "Absent" THEN "None"
    ELSE LET placed == IF val.kind = "Gate" THEN on(val) ELSE val
         IN  IF placed.kind # "Operation" THEN "None"
             \* method was bound to the value before it was placed
             ELSE LET result == val.apply_unitary_
                  IN  IF result = "NotImplemented" THEN "None"
                      ELSE IF result # "None" THEN "True" ELSE "False"

\* the list with the decomposition and probe strategies exchanged
strats_probe_before_decompose ==
    <<"has_unitary", "apply_unitary", "decompose", "unitary">>

\* the list of strategies has_unitary walks, by name
strats == <<"has_unitary", "decompose", "apply_unitary", "unitary">>

strat(name, val) ==
    CASE name = "has_unitary" -> _strat_has_unitary_from_has_unitary(val)
      [] name = "decompose" -> _strat_has_unitary_from_decompose(val)
      [] name = "apply_unitary" -> _strat_has_unitary_from_apply_unitary(val)
      [] name = "unitary" -> _strat_has_unitary_from_unitary(val)

\* the for loop of has_unitary from strategy k on, and the final return False
first_conclusive(ss, k, val) ==
    IF k > Len(ss) THEN "False"
    ELSE LET result == strat(ss[k], val)
         IN  IF result # "None" THEN result
             ELSE first_conclusive(ss, k + 1, val)

has_unitary(val) == first_conclusive(strats, 1, val)

(***************************************************************************)
(* Pauli strings and the LinearDict a Collector is constructed from        *)
(***************************************************************************)
\* qubit -> Pauli maps of the observables, as sets of <<qubit, pauli>>
QubitPauliMaps == {{}, {<<0, "X">>}, {<<0, "Z">>, <<1, "Z">>}}
\* coefficients a PauliString key carries
PauliCoefficients == {1, 0 - 1}
\* weights the LinearDict gives its keys
Weights == {2}

\* the PauliString keys: every map with coefficient 1, the one-qubit maps
\* with the other coefficients too
PauliStrings ==
    {p \in [qubit_pauli_map : QubitPauliMaps, coefficient : PauliCoefficients] :
        p.coefficient # 1 => Cardinality(p.qubit_pauli_map) = 1}

\* ops.PauliString(pauli_string): the same qubit -> Pauli map, coefficient 1
PauliString(pauli_string) ==
    [qubit_pauli_map |-> pauli_string.qubit_pauli_map, coefficient |-> 1]

\* bool(pauli_string), as the assert takes it
truthy(pauli_string) == pauli_string.qubit_pauli_map # {}

Ids == {PauliString(p) : p \in PauliStrings}

\* terms.items(): (key, weight) pairs in iteration order, the keys distinct
LinearDicts ==
    {d \in SeqsUpTo([pauli_string : PauliStrings, coef : Weights], MaxTerms) :
        \A i, j \in 1..Len(d) : i # j => d[i].pauli_string # d[j].pauli_string}

(***************************************************************************)
(* pauli_string_collector.py                                               *)
(***************************************************************************)
min(a, b) == IF a <= b THEN a ELSE b

\* the list comprehension of __init__
init_terms(terms) ==
    [k \in 1..Len(terms) |->
        [pauli |-> PauliString(terms[k].pauli_string),
         coef |-> terms[k].coef * terms[k].pauli_string.coefficient]]

\* what a next_job call gave back: a Job, None, or the exception it raised
Returned(kind, i, pauli, repetitions) ==
    [kind |-> kind, pos |-> i, id |-> pauli, repetitions |-> repetitions]
NoJob(kind) == Returned(kind, 0 - 1, PauliString([qubit_pauli_map |-> {}]), 0)

\* most next_job calls the driving loop makes
MaxCalls == MaxTotalSamples + ExtraCalls

\* _circuit_plus_pauli_string_measurements: does its assert pass
_circuit_plus_pauli_string_measurements(pauli_string) == truthy(pauli_string)

\* the term index rounded up instead of down
current_term_rounded_up ==
    (_total_samples_requested + _samples_per_term - 1) \div _samples_per_term

\* next_job's i: the 0-based index of the term being sampled
current_term == _total_samples_requested \div _samples_per_term

\* > in place of >=
no_more_terms_off_by_one(i) == i > Len(_terms)

\* next_job's test that every term has been sampled
no_more_terms(i) == i >= Len(_terms)

\* the larger of the two instead of the smaller
amount_to_request_max(i) ==
    LET remaining == _samples_per_term * (i + 1) - _total_samples_requested
    IN  IF remaining >= _samples_per_job THEN remaining ELSE _samples_per_job

\* the cap, whatever is still owed to the term
amount_to_request_cap(i) == _samples_per_job

\* what is owed counted from the start of term i instead of its end
amount_to_request_term_start(i) ==
    LET remaining == _samples_per_term * i - _total_samples_requested
    IN  min(remaining, _samples_per_job)

\* what is still to be recorded for the term instead of what is still to be
\* requested (mutant)
amount_to_request_from_recorded(i) ==
    LET pauli == _terms[(i % Len(_terms)) + 1].pauli
        remaining == _samples_per_term - (_zeros[pauli] + _ones[pauli])
    IN  min(remaining, _samples_per_job)

\* next_job's amount_to_request for term i (0-based)
amount_to_request(i) ==
    LET remaining == _samples_per_term * (i + 1) - _total_samples_requested
    IN  min(remaining, _samples_per_job)

next_job ==
    /\ Len(returned) < MaxCalls
    /\ Cardinality(pending) < MaxInFlight
    /\ IF _samples_per_term = 0
       THEN \* total // 0
            /\ returned' = Append(returned, NoJob("ZeroDivisionError"))
            /\ UNCHANGED <<_total_samples_requested, pending>>
       ELSE LET i == current_term
            IN  IF no_more_terms(i)
                THEN /\ returned' = Append(returned, NoJob("None"))
                     /\ UNCHANGED <<_total_samples_requested, pending>>
                ELSE IF i < 0 - Len(_terms) \/ i >= Len(_terms)
                THEN \* self._terms[i] outside -len..len-1
                     /\ returned' = Append(returned, NoJob("IndexError"))
                     /\ UNCHANGED <<_total_samples_requested, pending>>
                ELSE LET \* self._terms[i]; a negative i counts from the end
                         pauli == IF i >= 0 THEN _terms[i + 1].pauli
                                  ELSE _terms[Len(_terms) + i + 1].pauli
                         amount == amount_to_request(i)
                     IN  /\ _total_samples_requested' =
                                _total_samples_requested + amount
                         /\ IF _circuit_plus_pauli_string_measurements(pauli)
                            THEN /\ returned' = Append(returned,
                                        Returned("Job", i, pauli, amount))
                                 /\ pending' = pending \cup {Len(returned) + 1}
                            ELSE /\ returned' = Append(returned,
                                        NoJob("AssertionError"))
                                 /\ UNCHANGED pending
    /\ UNCHANGED <<_terms, _samples_per_term, _samples_per_job,
                   _zeros, _ones, deliveries, energies, rvars>>

\* = in place of +=
apply_result_overwrite(acc, id, parities) ==
    <<[acc[1] EXCEPT ![id] = parities[0]],
      [acc[2] EXCEPT ![id] = parities[1]]>>

\* the second assignment left out (mutant)
apply_result_even_only(acc, id, parities) ==
    <<[acc[1] EXCEPT ![id] = @ + parities[0]], acc[2]>>

\* the two assignments of on_job_result on accumulators acc = <<zeros, ones>>,
\* parities being the histogram [0 |-> even outcomes, 1 |-> odd outcomes]
apply_result(acc, id, parities) ==
    <<[acc[1] EXCEPT ![id] = @ + parities[0]],
      [acc[2] EXCEPT ![id] = @ + parities[1]]>>

\* an outcome of the measurement keyed 'out' is stood for by np.sum(bits), the
\* number of its bits that are 1; a TrialResult holds, for each such number,
\* how many of the job's repetitions measured it
RECURSIVE repetitions_up_to(_, _)
repetitions_up_to(result, s) ==
    IF s < 0 THEN 0 ELSE result[s] + repetitions_up_to(result, s - 1)

TrialResults(job) ==
    LET n == Cardinality(job.id.qubit_pauli_map)
    IN  {result \in [0..n -> 0..job.repetitions] :
            repetitions_up_to(result, n) = job.repetitions}

\* the fold without its % 2 (mutant)
fold_func_sum(bits) == bits

\* lambda bits: np.sum(bits) % 2
fold_func(bits) == bits % 2

RECURSIVE folded_count(_, _, _)
\* how many outcomes of at most s one-bits fold to key
folded_count(result, key, s) ==
    IF s < 0 THEN 0
    ELSE (IF fold_func(s) = key THEN result[s] ELSE 0)
         + folded_count(result, key, s - 1)

\* result.histogram(key='out', fold_func=...), read at the keys 0 and 1 (a
\* Counter gives 0 for a key it does not hold)
histogram(result) ==
    LET n == CHOOSE n \in DOMAIN result : \A s \in DOMAIN result : s <= n
    IN  [key \in {0, 1} |-> folded_count(result, key, n)]

\* the result of the Job returned by call k comes back from the sampler with
\* job.repetitions outcomes
on_job_result(k, result) ==
    LET job == returned[k]
        parities == histogram(result)
        acc == apply_result(<<_zeros, _ones>>, job.id, parities)
    IN  /\ _zeros' = acc[1]
        /\ _ones' = acc[2]
        /\ pending' = pending \ {k}
        /\ deliveries' = deliveries \cup {[job |-> k, result |-> result]}
        /\ energies' = <<>>
        /\ UNCHANGED <<_terms, _samples_per_term, _samples_per_job,
                       _total_samples_requested, returned, rvars>>

OnJobResult ==
    \E k \in pending : \E result \in TrialResults(returned[k]) :
        on_job_result(k, result)

(***************************************************************************)
(* estimated_energy, as an exact fraction <<numerator, denominator>>       *)
(***************************************************************************)
RECURSIVE gcd(_, _)
gcd(a, b) == IF b = 0 THEN a ELSE gcd(b, a % b)
abs(a) == IF a < 0 THEN 0 - a ELSE a

fraction(n, d) ==
    LET g == gcd(abs(n), d) IN <<n \div g, d \div g>>
\* a division by zero raises; the raised error is the pair <<0, 0>>
ZeroDivisionError == <<0, 0>>
divide(n, d) == IF d = 0 THEN ZeroDivisionError ELSE fraction(n, d)
fraction_add(x, y) ==
    IF x = ZeroDivisionError \/ y = ZeroDivisionError THEN ZeroDivisionError
    ELSE fraction(x[1] * y[2] + y[1] * x[2], x[2] * y[2])

RECURSIVE energy_of_terms_unguarded(_, _, _, _)
\* the loop without its test of a + b
energy_of_terms_unguarded(terms, zeros, ones, k) ==
    IF k > Len(terms) THEN <<0, 1>>
    ELSE LET a == zeros[terms[k].pauli]
             b == ones[terms[k].pauli]
             rest == energy_of_terms_unguarded(terms, zeros, ones, k + 1)
         IN  fraction_add(divide(terms[k].coef * (a - b), a + b), rest)

RECURSIVE energy_of_terms(_, _, _, _)
\* the for loop of estimated_energy over terms[k..]
energy_of_terms(terms, zeros, ones, k) ==
    IF k > Len(terms) THEN <<0, 1>>
    ELSE LET a == zeros[terms[k].pauli]
             b == ones[terms[k].pauli]
             rest == energy_of_terms(terms, zeros, ones, k + 1)
         IN  IF a + b # 0
             THEN fraction_add(divide(terms[k].coef * (a - b), a + b), rest)
             ELSE rest

estimated_energy(zeros, ones) == energy_of_terms(_terms, zeros, ones, 1)

\* a call that adds to the energy of the call before it
EstimatedEnergyAccumulating ==
    /\ Len(energies) < MaxReads
    /\ energies' = Append(energies,
            IF energies = <<>> THEN estimated_energy(_zeros, _ones)
            ELSE fraction_add(energies[Len(energies)],
                              estimated_energy(_zeros, _ones)))
    /\ UNCHANGED <<_terms, _samples_per_term, _samples_per_job,
                   _total_samples_requested, _zeros, _ones,
                   returned, pending, deliveries, rvars>>

\* a call of estimated_energy; reading a defaultdict leaves every count as
\* it is
EstimatedEnergy ==
    /\ Len(energies) < MaxReads
    /\ energies' = Append(energies, estimated_energy(_zeros, _ones))
    /\ UNCHANGED <<_terms, _samples_per_term, _samples_per_job,
                   _total_samples_requested, _zeros, _ones,
                   returned, pending, deliveries, rvars>>

(***************************************************************************)
(* Specifications                                                          *)
(***************************************************************************)
\* the state __init__ leaves, for any arguments it accepts
Constructed(samples_per_term, terms, max_samples_per_job) ==
    /\ _samples_per_job = max_samples_per_job
    /\ _terms = init_terms(terms)
    /\ _zeros = [id \in Ids |-> 0]
    /\ _ones = [id \in Ids |-> 0]
    /\ _samples_per_term = samples_per_term
    /\ _total_samples_requested = 0
    /\ returned = <<>>
    /\ pending = {}
    /\ deliveries = {}
    /\ energies = <<>>

ResolverIdle ==
    /\ r_val = [kind |-> "Other", has_unitary_ |-> "Absent",
                apply_unitary_ |-> "Absent", unitary_ |-> "Absent",
                decomposes |-> FALSE, operations |-> <<>>]
    /\ r_called = FALSE
    /\ r_result = "None"
    /\ r_strats = <<>>
    /\ graph = <<>>
    /\ stack = <<>>
    /\ outcome = "None"

Init ==
    /\ \E samples_per_term \in (0 - 1)..MaxSamplesPerTerm :
       \E max_samples_per_job \in 0..MaxSamplesPerJob :
       \E terms \in LinearDicts :
          /\ samples_per_term * Len(terms) <= MaxTotalSamples
          /\ Constructed(samples_per_term, terms, max_samples_per_job)
    /\ ResolverIdle

Next == next_job \/ OnJobResult \/ EstimatedEnergy

Spec == Init /\ [][Next]_vars

\* the driving loop keeps asking for the next Job, and the sampler answers
FairSpec == Spec /\ WF_vars(next_job) /\ WF_vars(OnJobResult)

\* has_unitary is called once on a value
InitResolver ==
    /\ r_val \in Values
    /\ r_called = FALSE
    /\ r_result = "None"
    /\ r_strats = <<>>
    /\ graph = <<>>
    /\ stack = <<>>
    /\ outcome = "None"
    /\ Constructed(1, <<>>, 1)

CallHasUnitary ==
    /\ ~r_called
    /\ r_called' = TRUE
    /\ r_result' = has_unitary(r_val)
    /\ r_strats' = <<_strat_has_unitary_from_has_unitary(r_val),
                     _strat_has_unitary_from_decompose(r_val),
                     _strat_has_unitary_from_apply_unitary(r_val),
                     _strat_has_unitary_from_unitary(r_val)>>
    /\ UNCHANGED <<r_val, svars, cvars>>

NextResolver == CallHasUnitary

SpecResolver == InitResolver /\ [][NextResolver]_vars

(***************************************************************************)
(* has_unitary followed call by call through a decomposition graph.        *)
(* A value of the graph is an operation that exposes at most               *)
(* _has_unitary_ and _decompose_; its operations are the numbers of the    *)
(* values decompose_once yields, so that a value can be reached from its   *)
(* own decomposition.  A frame of the stack is one has_unitary call:       *)
(*   val             the value it was called on                            *)
(*   strat           the position of its for loop in strats                *)
(*   has_unitaries   the list line 137 has built so far                    *)
(***************************************************************************)
Nodes == 1..MaxNodes
NodeFlags == {"Absent", "True"}

DecompositionLists ==
    {ops \in SeqsUpTo(Nodes, MaxNodes) :
        \A i, j \in DOMAIN ops : i < j => ops[i] < ops[j]}

GraphValues ==
    [kind : {"Operation"}, has_unitary_ : NodeFlags,
     apply_unitary_ : {"Absent"}, unitary_ : {"Absent"},
     decomposes : {FALSE}, operations : {<<>>}]
    \cup
    [kind : {"Operation"}, has_unitary_ : NodeFlags,
     apply_unitary_ : {"Absent"}, unitary_ : {"Absent"},
     decomposes : {TRUE}, operations : DecompositionLists]

Graphs == [Nodes -> GraphValues]

\* the interpreter's limit on calls in progress, above the depth of every
\* acyclic graph over Nodes
RecursionLimit == MaxNodes + 2

frame(val) == [val |-> val, strat |-> 1, has_unitaries |-> <<>>]

top == stack[Len(stack)]

\* the innermost call goes on with its next strategy
next_strat == [stack EXCEPT ![Len(stack)].strat = @ + 1]

\* the innermost call returns result: to the list comprehension of its
\* caller, or out of the outermost call
return(result) ==
    IF Len(stack) = 1
    THEN /\ stack' = <<>>
         /\ outcome' = result
    ELSE /\ stack' = [SubSeq(stack, 1, Len(stack) - 1) EXCEPT
                        ![Len(stack) - 1].has_unitaries = Append(@, result)]
         /\ UNCHANGED outcome

\* has_unitary called on the value itself (mutant)
callee_self(f) == f.val

\* the op the list comprehension of line 137 is at
callee(f) == graph[f.val].operations[Len(f.has_unitaries) + 1]

\* the for loop of has_unitary at a strategy that makes no has_unitary call
TryStrategy ==
    /\ stack # <<>>
    /\ top.strat <= Len(strats)
    /\ strats[top.strat] # "decompose"
    /\ LET result == strat(strats[top.strat], graph[top.val])
       IN  IF result # "None"
           THEN return(result)
           ELSE stack' = next_strat /\ UNCHANGED outcome
    /\ UNCHANGED <<graph, r_val, r_called, r_result, r_strats, cvars>>

\* has_unitary(op) for the next op of the decomposition: a new call, or
\* RecursionError out of every call in progress
HasUnitaryOfOperation ==
    /\ stack # <<>>
    /\ top.strat <= Len(strats)
    /\ strats[top.strat] = "decompose"
    /\ LET d == _try_decompose_into_operations_and_qubits(graph[top.val])
       IN  /\ ~d.is_none
           /\ Len(top.has_unitaries) < Len(d.operations)
    /\ IF Len(stack) >= RecursionLimit
       THEN stack' = <<>> /\ outcome' = "RecursionError"
       ELSE stack' = Append(stack, frame(callee(top))) /\ UNCHANGED outcome
    /\ UNCHANGED <<graph, r_val, r_called, r_result, r_strats, cvars>>

\* _strat_has_unitary_from_decompose apart from its has_unitary calls
DecomposeStrategy ==
    /\ stack # <<>>
    /\ top.strat <= Len(strats)
    /\ strats[top.strat] = "decompose"
    /\ LET d == _try_decompose_into_operations_and_qubits(graph[top.val])
           has_unitaries == top.has_unitaries
       IN  IF d.is_none
           THEN stack' = next_strat /\ UNCHANGED outcome
           ELSE /\ Len(has_unitaries) = Len(d.operations)
                /\ IF \E k \in 1..Len(has_unitaries) :
                         has_unitaries[k] \in {"None", "NotImplemented"}
                   THEN stack' = next_strat /\ UNCHANGED outcome
                   ELSE IF \A k \in 1..Len(has_unitaries) :
                              has_unitaries[k] = "True"
                        THEN return("True") ELSE return("False")
    /\ UNCHANGED <<graph, r_val, r_called, r_result, r_strats, cvars>>

\* the return False after the for loop
ReturnFalse ==
    /\ stack # <<>>
    /\ top.strat > Len(strats)
    /\ return("False")
    /\ UNCHANGED <<graph, r_val, r_called, r_result, r_strats, cvars>>

\* has_unitary is called on value 1 of a graph
InitRecursion ==
    /\ graph \in Graphs
    /\ stack = <<frame(1)>>
    /\ outcome = "Running"
    /\ r_val = [kind |-> "Other", has_unitary_ |-> "Absent",
                apply_unitary_ |-> "Absent", unitary_ |-> "Absent",
                decomposes |-> FALSE, operations |-> <<>>]
    /\ r_called = FALSE
    /\ r_result = "None"
    /\ r_strats = <<>>
    /\ Constructed(1, <<>>, 1)

NextRecursion ==
    TryStrategy \/ HasUnitaryOfOperation \/ DecomposeStrategy \/ ReturnFalse

SpecRecursion == InitRecursion /\ [][NextRecursion]_vars

\* the interpreter runs a call in progress on
FairSpecRecursion == SpecRecursion /\ WF_vars(NextRecursion)

(***************************************************************************)
(* Resolver claims                                                         *)
(***************************************************************************)
Unknown == "None"

\* C2: has_unitary(val) returns the result of the first of the four
\* strategies, taken in the order direct flag, decomposition, probe
\* application, matrix materialization, that is not Unknown, whatever the
\* later strategies would say, and returns False when all four are Unknown.
C2_FirstConclusiveStrategyWins ==
    r_called =>
        \/ \E k \in 1..4 :
              /\ r_strats[k] # Unknown
              /\ \A j \in 1..(k - 1) : r_strats[j] = Unknown
              /\ r_result = r_strats[k]
        \/ /\ \A k \in 1..4 : r_strats[k] = Unknown
           /\ r_result = "False"

\* a call where the decomposition says False, the probe would say True, and
\* the earlier strategy decided
C2_Witness_DisagreeingStrategies ==
    /\ r_called
    /\ r_strats[1] = Unknown
    /\ r_strats[2] = "False"
    /\ r_strats[3] = "True"
    /\ r_result = "False"

\* is the property Unknown for this sub-operation: no strategy is conclusive
property_is_unknown(op) == \A k \in 1..Len(strats) : strat(strats[k], op) = Unknown

\* C3: when the value decomposes, the decomposition strategy is Unknown if
\* the property is Unknown for any sub-operation, and otherwise the logical
\* AND of the sub-results; Unknown is never turned into False inside it.
C3_DecomposeUnknownPropagates ==
    (r_called /\ r_val.decomposes) =>
        LET ops == r_val.operations
        IN  r_strats[2] =
              IF \E k \in 1..Len(ops) : property_is_unknown(ops[k])
              THEN Unknown
              ELSE IF \A k \in 1..Len(ops) : has_unitary(ops[k]) = "True"
                   THEN "True" ELSE "False"

(***************************************************************************)
(* Collector claims                                                        *)
(***************************************************************************)
\* the documented parameter domain: positive counts, non-empty observables
PositiveParameters == _samples_per_term >= 1 /\ _samples_per_job >= 1
NonEmptyObservables == \A k \in 1..Len(_terms) : truthy(_terms[k].pauli)
WellFormed == PositiveParameters /\ NonEmptyObservables

number_of_terms == Len(_terms)
JobCalls == {k \in 1..Len(returned) : returned[k].kind = "Job"}
\* next_job has returned nothing
Exhausted == \E k \in 1..Len(returned) : returned[k].kind = "None"

RECURSIVE RepetitionsFor(_, _)
\* repetitions of the Jobs for term position i among the first n calls
RepetitionsFor(i, n) ==
    IF n = 0 THEN 0
    ELSE RepetitionsFor(i, n - 1) +
         (IF returned[n].kind = "Job" /\ returned[n].pos = i
          THEN returned[n].repetitions ELSE 0)

\* this step is a next_job call
NextJobStep == Len(returned') = Len(returned) + 1
\* this step is an on_job_result call
OnJobResultStep == deliveries' # deliveries

\* C1: with samples_per_term >= 1, max_samples_per_job >= 1 and non-empty
\* observables, once next_job has returned nothing the repetitions of the
\* Jobs emitted for each term position sum to exactly samples_per_term.
C1_ExactlySamplesPerTerm ==
    (WellFormed /\ Exhausted) =>
        \A i \in 0..(number_of_terms - 1) :
            RepetitionsFor(i, Len(returned)) = _samples_per_term

\* two terms of two samples each, requested one at a time, all requested
C1_Witness_TwoTermsSeveralJobs ==
    /\ WellFormed /\ Exhausted
    /\ number_of_terms = 2
    /\ _samples_per_term = 2 /\ _samples_per_job = 1
    /\ Cardinality(JobCalls) = 4

\* C4: Jobs come in term-list order without interleaving: the term positions
\* of successive Jobs never decrease, and a Job for a later term is emitted
\* only once the repetitions requested for every earlier term have reached
\* samples_per_term, however the results are delivered in between.
C4_TermOrderNoInterleaving ==
    NonEmptyObservables =>
        \A k \in JobCalls :
            /\ \A j \in JobCalls : j < k => returned[j].pos <= returned[k].pos
            /\ \A i \in 0..(returned[k].pos - 1) :
                  RepetitionsFor(i, k - 1) >= _samples_per_term

\* a Job for the second term after two Jobs for the first, a result of the
\* first term still in flight and another one delivered
C4_Witness_SecondTermAfterFirst ==
    /\ WellFormed
    /\ \E k \in JobCalls : returned[k].pos = 1
    /\ Cardinality({k \in JobCalls : returned[k].pos = 0}) = 2
    /\ \E k \in pending : returned[k].pos = 0
    /\ deliveries # {}

\* C5: for each term, every Job but the term's last asks for exactly
\* max_samples_per_job repetitions and the last for samples_per_term minus
\* what was already requested for the term; every Job asks for between 1 and
\* max_samples_per_job repetitions.
C5_BatchingShape ==
    WellFormed =>
        \A k \in JobCalls :
            LET job == returned[k]
                already == RepetitionsFor(job.pos, k - 1)
                later_same_term ==
                    \E j \in JobCalls : j > k /\ returned[j].pos = job.pos
                term_left ==
                    \E j \in (k + 1)..Len(returned) :
                        returned[j].kind = "None" \/ returned[j].pos > job.pos
            IN  /\ job.repetitions \in 1.._samples_per_job
                /\ later_same_term => job.repetitions = _samples_per_job
                /\ (~later_same_term /\ term_left) =>
                       job.repetitions = _samples_per_term - already

\* three samples with cap two: a Job of 2 then a last Job of 1
C5_Witness_FullThenRemainder ==
    /\ WellFormed
    /\ _samples_per_term = 3 /\ _samples_per_job = 2
    /\ Len(returned) >= 3
    /\ returned[1].kind = "Job" /\ returned[1].repetitions = 2
    /\ returned[2].kind = "Job" /\ returned[2].repetitions = 1
    /\ returned[2].pos = 0

\* C6: next_job returns nothing exactly when total_samples_requested >=
\* samples_per_term * number_of_terms; once it has, every later next_job call
\* returns nothing too and leaves total_samples_requested (which equals
\* samples_per_term * number_of_terms) and the accumulators as they are,
\* whatever results are delivered in between.
C6_ExhaustionAbsorbing ==
    [][(WellFormed /\ NextJobStep) =>
        LET ret == returned'[Len(returned')]
        IN  /\ (ret.kind = "None") <=>
                 (_total_samples_requested >= _samples_per_term * number_of_terms)
            /\ Exhausted =>
                 /\ ret.kind = "None"
                 /\ _total_samples_requested = _samples_per_term * number_of_terms
                 /\ UNCHANGED <<_total_samples_requested, _zeros, _ones>>]_vars

\* next_job returned nothing twice, after results had been recorded
C6_Witness_NothingTwice ==
    /\ WellFormed
    /\ Cardinality({k \in 1..Len(returned) : returned[k].kind = "None"}) >= 2
    /\ deliveries # {}
    /\ \E id \in Ids : _zeros[id] + _ones[id] > 0

\* ceil(a / b) for positive b
ceil_div(a, b) == (a + b - 1) \div b

\* C7: with samples_per_term >= 1 and max_samples_per_job >= 1 the driving
\* loop reaches the point where next_job returns nothing, after exactly
\* number_of_terms * ceil(samples_per_term / max_samples_per_job) Jobs, and
\* every call that returns a Job strictly increases total_samples_requested.
C7_DrivingLoopTerminates ==
    /\ [](WellFormed => <>Exhausted)
    /\ []((WellFormed /\ Exhausted) =>
            Cardinality(JobCalls) =
                number_of_terms * ceil_div(_samples_per_term, _samples_per_job))
    /\ [][(WellFormed /\ NextJobStep /\ returned'[Len(returned')].kind = "Job")
            => _total_samples_requested' > _total_samples_requested]_vars

\* two terms, two samples each, one at a time: nothing after four Jobs
C7_Witness_ExhaustedAfterFourJobs ==
    /\ WellFormed /\ Exhausted
    /\ number_of_terms = 2
    /\ _samples_per_term = 2 /\ _samples_per_job = 1
    /\ returned[5].kind = "None"

\* C8: a Collector with an empty observable in a term, or a non-positive
\* samples_per_term or max_samples_per_job, is rejected at construction: no
\* next_job or on_job_result call is ever made on such a Collector.
C8_MalformedRejectedAtConstruction ==
    (returned # <<>> \/ deliveries # {}) => WellFormed

\* C9: no two terms of the term list have the same observable, so a result
\* ingested for a Job of one term never changes the zeros/ones counts that
\* estimated_energy reads for a different term.
C9_JobIdAddressesOneTerm ==
    [][\A k \in pending : (deliveries' \ deliveries # {} /\ k \notin pending') =>
          \A j \in 1..number_of_terms : j # returned[k].pos + 1 =>
              /\ _zeros'[_terms[j].pauli] = _zeros[_terms[j].pauli]
              /\ _ones'[_terms[j].pauli] = _ones[_terms[j].pauli]]_vars

RECURSIVE accumulate_in_call_order(_)
\* on_job_result applied, from empty accumulators, to the delivered pairs whose
\* Job came from the first n calls, in the order the Jobs were emitted
accumulate_in_call_order(n) ==
    IF n = 0 THEN <<[id \in Ids |-> 0], [id \in Ids |-> 0]>>
    ELSE LET acc == accumulate_in_call_order(n - 1)
         IN  IF \E d \in deliveries : d.job = n
             THEN LET d == CHOOSE d \in deliveries : d.job = n
                  IN  apply_result(acc, returned[n].id, histogram(d.result))
             ELSE acc

\* C10: the zeros/ones mappings and estimated_energy depend only on which
\* (job, result) pairs were delivered, not on the order of delivery nor on
\* how deliveries interleave with next_job calls: they are what delivering
\* the same pairs in emission order gives.
C10_ResultApplicationCommutes ==
    LET acc == accumulate_in_call_order(Len(returned))
    IN  /\ <<_zeros, _ones>> = acc
        /\ estimated_energy(_zeros, _ones) = estimated_energy(acc[1], acc[2])

\* two results for the same term with different outcomes, the later Job's
\* result delivered while the earlier Job was still in flight
C10_Witness_LaterJobDeliveredFirst ==
    \E d \in deliveries : \E k \in pending :
        /\ k < d.job
        /\ returned[k].id = returned[d.job].id
        /\ histogram(d.result)[0] > 0
        /\ returned[k].repetitions > 0

\* this step is an estimated_energy call
EstimatedEnergyStep == Len(energies') = Len(energies) + 1

RECURSIVE weighted_expectations(_)
\* the sum over the terms k.. of 0 when zeros + ones = 0 and of
\* coefficient * (zeros - ones) / (zeros + ones) otherwise, as an unreduced
\* pair <<numerator, denominator>> over the product of the sample counts
weighted_expectations(k) ==
    IF k > Len(_terms) THEN <<0, 1>>
    ELSE LET a == _zeros[_terms[k].pauli]
             b == _ones[_terms[k].pauli]
             rest == weighted_expectations(k + 1)
         IN  IF a + b = 0 THEN rest
             ELSE <<_terms[k].coef * (a - b) * rest[2] + rest[1] * (a + b),
                    (a + b) * rest[2]>>

\* the accumulators of the example: one term X(q0) with coefficient 2,
\* zeros = 30 and ones = 10
ExampleTerm == [qubit_pauli_map |-> {<<0, "X">>}, coefficient |-> 1]
ExampleCounts(n) == [id \in Ids |-> IF id = ExampleTerm THEN n ELSE 0]

\* C11: estimated_energy returns the sum over the terms of 0 when
\* zeros + ones = 0 for the term's observable and of
\* coefficient * (zeros - ones) / (zeros + ones) otherwise, and never fails;
\* a Collector never driven returns 0, and one term with coefficient 2,
\* zeros = 30 and ones = 10 gives 1.
C11_EnergyIsSumOfWeightedExpectations ==
    /\ \A n \in 1..Len(energies) :
          LET e == energies[n]
              sum == weighted_expectations(1)
          IN  /\ e # ZeroDivisionError
              /\ e[2] > 0
              /\ e[1] * sum[2] = sum[1] * e[2]
              /\ (returned = <<>> /\ deliveries = {}) => e = <<0, 1>>
    /\ energy_of_terms(<<[pauli |-> ExampleTerm, coef |-> 2]>>,
                       ExampleCounts(30), ExampleCounts(10), 1) = <<1, 1>>

\* an energy other than 0 read while one term has samples and another none
C11_Witness_SampledAndUnsampledTerm ==
    /\ WellFormed
    /\ energies # <<>>
    /\ energies[1][1] # 0
    /\ \E k \in 1..number_of_terms :
          _zeros[_terms[k].pauli] + _ones[_terms[k].pauli] = 0
    /\ \E k \in 1..number_of_terms :
          _zeros[_terms[k].pauli] + _ones[_terms[k].pauli] > 0

\* what a next_job call made in this state returns
upcoming_job ==
    IF _samples_per_term = 0 THEN NoJob("ZeroDivisionError")
    ELSE LET i == current_term
         IN  IF no_more_terms(i) THEN NoJob("None")
             ELSE IF i < 0 - Len(_terms) \/ i >= Len(_terms)
             THEN NoJob("IndexError")
             ELSE LET pauli == IF i >= 0 THEN _terms[i + 1].pauli
                               ELSE _terms[Len(_terms) + i + 1].pauli
                  IN  IF truthy(pauli)
                      THEN Returned("Job", i, pauli, amount_to_request(i))
                      ELSE NoJob("AssertionError")

\* C12: estimated_energy calls with no on_job_result call between them all
\* return the same value, and a call changes neither
\* total_samples_requested, nor the count of any id in zeros/ones, nor the
\* Job the next next_job call returns.
C12_EnergyReadOnlyIdempotent ==
    /\ [](\A m, n \in 1..Len(energies) : energies[m] = energies[n])
    /\ [][EstimatedEnergyStep =>
            /\ UNCHANGED <<_total_samples_requested, _zeros, _ones, _terms>>
            /\ upcoming_job' = upcoming_job]_vars

\* an energy other than 0 read twice in a row, with a Job still to come
C12_Witness_ReadTwice ==
    /\ Len(energies) = 2
    /\ energies[2][1] # 0
    /\ upcoming_job.kind = "Job"

\* C13: each of the four strategies returns Unknown, not False, when the
\* value's capability method is not present or returns NotImplemented,
\* the matrix strategy on a _unitary_ returning NotImplemented included.
C13_MissingCapabilityIsUnknown ==
    r_called =>
        /\ r_val.has_unitary_ \in {"Absent", "NotImplemented"}
              => r_strats[1] = Unknown
        /\ ~r_val.decomposes => r_strats[2] = Unknown
        /\ r_val.apply_unitary_ \in {"Absent", "NotImplemented"}
              => r_strats[3] = Unknown
        /\ r_val.unitary_ \in {"Absent", "NotImplemented"}
              => r_strats[4] = Unknown

\* C14: the probe strategy returns Unknown when _apply_unitary_ is absent or
\* the value is neither a gate nor an operation; otherwise (a gate being
\* placed on line qubits first) True when the probe call returns a buffer,
\* False when it returns None and Unknown when it returns NotImplemented.
C14_ProbeStrategy ==
    r_called =>
        r_strats[3] =
            IF r_val.apply_unitary_ = "Absent" THEN Unknown
            ELSE IF r_val.kind \notin {"Gate", "Operation"} THEN Unknown
            ELSE CASE r_val.apply_unitary_ = "Array" -> "True"
                   [] r_val.apply_unitary_ = "None" -> "False"
                   [] r_val.apply_unitary_ = "NotImplemented" -> Unknown

\* a gate whose probe call fills the buffer, decided by the probe strategy
C14_Witness_GateProbed ==
    /\ r_called
    /\ r_val.kind = "Gate"
    /\ r_val.apply_unitary_ = "Array"
    /\ r_strats[1] = Unknown
    /\ r_strats[2] = Unknown
    /\ r_strats[3] = "True"
    /\ r_result = "True"

RECURSIVE outcomes_of_parity(_, _, _)
\* how many outcomes of the result, among those of at most s one-bits, have
\* an even (parity 0) or odd (parity 1) number of one-bits
outcomes_of_parity(result, parity, s) ==
    IF s < 0 THEN 0
    ELSE (IF s - 2 * (s \div 2) = parity THEN result[s] ELSE 0)
         + outcomes_of_parity(result, parity, s - 1)

\* C15: on_job_result(job, result) adds the number of even-parity outcomes
\* of the result to zeros[job.id] and the number of odd-parity outcomes to
\* ones[job.id]; the counts of every other id, total_samples_requested and
\* the term list are unchanged.
C15_OnJobResultAddsParityCounts ==
    [][OnJobResultStep =>
        \E d \in deliveries' \ deliveries :
            LET id == returned[d.job].id
                n == Cardinality(id.qubit_pauli_map)
            IN  /\ _zeros' = [_zeros EXCEPT
                                ![id] = @ + outcomes_of_parity(d.result, 0, n)]
                /\ _ones' = [_ones EXCEPT
                                ![id] = @ + outcomes_of_parity(d.result, 1, n)]
                /\ UNCHANGED <<_total_samples_requested, _terms,
                               _samples_per_term, _samples_per_job>>]_vars

\* a result for a two-qubit observable with an outcome of two one-bits and
\* an outcome of one, delivered when another id already had counts
C15_Witness_TwoQubitResult ==
    \E d \in deliveries :
        /\ 2 \in DOMAIN d.result
        /\ d.result[2] > 0
        /\ d.result[1] > 0
        /\ _zeros[returned[d.job].id] > 0
        /\ _ones[returned[d.job].id] > 0
        /\ \E id \in Ids : /\ id # returned[d.job].id
                           /\ _zeros[id] + _ones[id] > 0

\* C16: on a Collector with positive parameters no next_job, on_job_result
\* or estimated_energy call decreases zeros[id] or ones[id] for any id, and
\* none decreases total_samples_requested.
C16_CountsNeverDecrease ==
    [][PositiveParameters =>
        /\ \A id \in Ids : /\ _zeros'[id] >= _zeros[id]
                           /\ _ones'[id] >= _ones[id]
        /\ _total_samples_requested' >= _total_samples_requested]_vars

\* two results delivered for one id, a Job requested after them, and the
\* energy read
C16_Witness_AllThreeCalls ==
    /\ PositiveParameters
    /\ energies # <<>>
    /\ \E d, e \in deliveries :
          /\ d.job < e.job
          /\ returned[d.job].id = returned[e.job].id
          /\ \E k \in JobCalls : k > e.job
    /\ \E id \in Ids : _zeros[id] > 0 /\ _ones[id] > 0

RECURSIVE recorded_samples(_)
\* the sum of zeros[id] + ones[id] over the ids of the set
recorded_samples(ids) ==
    IF ids = {} THEN 0
    ELSE LET id == CHOOSE id \in ids : TRUE
         IN  _zeros[id] + _ones[id] + recorded_samples(ids \ {id})

\* a run of the driving loop: no next_job call has raised, and every Job
\* emitted asks for a number of repetitions a result can hold
DrivingLoopRun ==
    \A k \in 1..Len(returned) :
        /\ returned[k].kind \in {"Job", "None"}
        /\ returned[k].kind = "Job" => returned[k].repetitions >= 0

DistinctTermIds ==
    \A i, j \in 1..number_of_terms : i # j => _terms[i].pauli # _terms[j].pauli

\* C18: in a run of the driving loop where each Job's result is delivered at
\* most once and holds job.repetitions outcomes, the sum over all ids of
\* zeros[id] + ones[id] is at most total_samples_requested, and equal to it
\* once next_job has returned nothing and every result is ingested; with
\* distinct term ids zeros[id] + ones[id] is then samples_per_term for
\* every term.
C18_RecordedNeverExceedsRequested ==
    DrivingLoopRun =>
        /\ recorded_samples(Ids) <= _total_samples_requested
        /\ (Exhausted /\ pending = {}) =>
              /\ recorded_samples(Ids) = _total_samples_requested
              /\ DistinctTermIds =>
                    \A k \in 1..number_of_terms :
                        _zeros[_terms[k].pauli] + _ones[_terms[k].pauli]
                            = _samples_per_term

\* two terms of distinct ids, every result ingested after next_job returned
\* nothing, both parities recorded
C18_Witness_AllIngested ==
    /\ DrivingLoopRun /\ Exhausted /\ pending = {}
    /\ number_of_terms = 2 /\ DistinctTermIds
    /\ _samples_per_term = 2
    /\ \E id \in Ids : _zeros[id] > 0 /\ _ones[id] > 0

RECURSIVE repetitions_returned(_)
\* the sum of the repetitions of the Jobs returned by the first n calls
repetitions_returned(n) ==
    IF n = 0 THEN 0
    ELSE repetitions_returned(n - 1) +
         (IF returned[n].kind = "Job" THEN returned[n].repetitions ELSE 0)

\* C19: total_samples_requested is always the sum of the repetitions of the
\* Jobs next_job has returned; a next_job call that fails on an empty
\* observable leaves it unchanged.
C19_TotalIsSumOfReturnedJobs ==
    _total_samples_requested = repetitions_returned(Len(returned))

\* what a next_job call returns, and the counter it leaves, on a Collector of
\* this configuration whose counter is total
call_at(total) ==
    IF _samples_per_term = 0
    THEN [kind |-> "ZeroDivisionError", id |-> <<>>, repetitions |-> 0,
          total |-> total]
    ELSE LET i == total \div _samples_per_term
             n == Len(_terms)
         IN  IF i >= n
             THEN [kind |-> "None", id |-> <<>>, repetitions |-> 0,
                   total |-> total]
             ELSE IF i < 0 - n
             THEN [kind |-> "IndexError", id |-> <<>>, repetitions |-> 0,
                   total |-> total]
             ELSE LET pauli == _terms[(i % n) + 1].pauli
                      remaining == _samples_per_term * (i + 1) - total
                      amount == IF remaining <= _samples_per_job
                                THEN remaining ELSE _samples_per_job
                  IN  IF pauli.qubit_pauli_map # {}
                      THEN [kind |-> "Job", id |-> pauli,
                            repetitions |-> amount, total |-> total + amount]
                      ELSE [kind |-> "AssertionError", id |-> <<>>,
                            repetitions |-> 0, total |-> total + amount]

RECURSIVE undelivered_run(_)
\* the k-th next_job call of the run of this configuration in which no
\* result is ever delivered
undelivered_run(k) ==
    IF k = 1 THEN call_at(0) ELSE call_at(undelivered_run(k - 1).total)

\* C20: the k-th next_job call returns a Job of the same id and repetitions
\* (or nothing) whichever results were delivered, when, and with what
\* outcomes: it returns what it returns in the run of the same configuration
\* where no result is delivered.
C20_JobStreamIndependentOfResults ==
    \A k \in 1..Len(returned) :
        LET call == undelivered_run(k)
        IN  /\ returned[k].kind = call.kind
            /\ returned[k].kind = "Job" =>
                  /\ returned[k].id = call.id
                  /\ returned[k].repetitions = call.repetitions

\* a Job returned after a result with an odd-parity outcome came in, while an
\* earlier Job's result was still out, and then nothing
C20_Witness_JobAfterDelivery ==
    /\ WellFormed /\ Exhausted
    /\ \E d \in deliveries : \E k \in JobCalls : \E j \in pending :
          /\ d.job < k /\ j < k
          /\ histogram(d.result)[1] > 0

\* the values the decomposition of value n yields
operations_of(n) ==
    IF graph[n].decomposes
    THEN {graph[n].operations[k] : k \in DOMAIN graph[n].operations}
    ELSE {}

RECURSIVE reached_within(_, _)
\* the values reached from those of S by 1 .. steps decompositions
reached_within(S, steps) ==
    IF steps = 0 THEN {}
    ELSE LET T == UNION {operations_of(n) : n \in S}
         IN  T \cup reached_within(T, steps - 1)

\* the decomposition graph of value 1 has no cycle
Acyclic ==
    \A n \in {1} \cup reached_within({1}, MaxNodes) :
        n \notin reached_within({n}, MaxNodes)

RECURSIVE decomposition_depth(_)
\* the longest chain of decompositions from value n, counted in values
decomposition_depth(n) ==
    LET depths == {decomposition_depth(m) : m \in operations_of(n)}
    IN  IF depths = {} THEN 1
        ELSE 1 + (CHOOSE d \in depths : \A e \in depths : e <= d)

RECURSIVE value_of(_)
\* value n of an acyclic graph with its operations written out
value_of(n) ==
    [graph[n] EXCEPT !.operations =
        [k \in DOMAIN graph[n].operations |-> value_of(graph[n].operations[k])]]

\* the decomposition of value 1 contains value 1
ContainsItself == 1 \in operations_of(1)

Inconclusive(n) == graph[n].has_unitary_ \in {"Absent", "NotImplemented"}

RECURSIVE reached_undecided(_, _)
\* the values reached from those of S by 1 .. steps decompositions of values
\* whose _has_unitary_ is inconclusive
reached_undecided(S, steps) ==
    IF steps = 0 THEN {}
    ELSE LET T == UNION {operations_of(n) : n \in {m \in S : Inconclusive(m)}}
         IN  T \cup reached_undecided(T, steps - 1)

\* C17 as stated, its last sentence: the has_unitary call on a value whose
\* decomposition contains the value itself never returns.
C17_ContainingItselfNeverReturns ==
    ContainsItself => outcome \notin {"True", "False"}

\* C17: has_unitary returns on every value whose decomposition graph is
\* acyclic, with no more calls in progress than the decomposition depth, and
\* returns what the recursive definition gives; there is no guard, so a
\* value whose decomposition leads back to it through values whose
\* _has_unitary_ is inconclusive never returns a result (the calls nest up
\* to the interpreter's limit), while one that contains itself and has a
\* conclusive _has_unitary_ returns it.
C17_TerminatesOnAcyclicGraphs ==
    /\ Acyclic => <>(outcome \in {"True", "False"})
    /\ [](Acyclic =>
            /\ Len(stack) <= decomposition_depth(1)
            /\ outcome \in {"Running", has_unitary(value_of(1))})
    /\ [](1 \in reached_undecided({1}, MaxNodes)
            => outcome \notin {"True", "False"})
    /\ []((ContainsItself /\ ~Inconclusive(1) /\ stack = <<>>)
            => outcome = graph[1].has_unitary_)

\* has_unitary has returned on a chain of decompositions as long as the graph
\* allows, after as many calls in progress as the chain is long
C17_Witness_DeepestChainReturned ==
    /\ Acyclic
    /\ decomposition_depth(1) = MaxNodes
    /\ \A n \in Nodes : Inconclusive(n)
    /\ outcome = "True"

====
